---- MODULE Spec2Model ----
(***************************************************************************)
(* Taskify backend: the task routes, the file routes and the storage       *)
(* module, as a state machine.                                             *)
(*                                                                         *)
(* The persistent state is the Task table, the File table and the set of   *)
(* stored objects.  Every HTTP request runs in a request slot; a handler   *)
(* that awaits more than one database / storage call is split at its       *)
(* awaits, so that requests interleave exactly where the event loop lets   *)
(* them interleave.                                                        *)
(***************************************************************************)
EXTENDS Integers, Sequences, FiniteSets, TLC

VARIABLES
    tasks,       \* Task table: id -> record (prisma.task)
    files,       \* File table: id -> record (prisma.file)
    objects,     \* stored objects: the set of locators that hold content
    slots,       \* requests in flight and their last responses
    nextTaskId,  \* next fresh Task id (uuid primary key)
    nextFileId,  \* next fresh File id (uuid primary key)
    nextUuid,    \* next fresh uuidv4() token of the storage module
    isLocalDev,  \* storage.ts: backend mode, fixed at module load
    bucketEnv    \* whether process.env.GOOGLE_CLOUD_STORAGE_BUCKET is set

vars == <<tasks, files, objects, slots, nextTaskId, nextFileId, nextUuid, isLocalDev, bucketEnv>>

----------------------------------------------------------------------------
(* Bounds of the model *)

MaxTasks == 2
MaxUploads == 2
MaxInFlight == 2
MaxRaceTasks == 2
MaxRaceUploads == 1

Users == {"alice", "bob"}
TaskIds == 1 .. MaxTasks
FileIds == 1 .. MaxUploads
Slots == 1 .. MaxInFlight

----------------------------------------------------------------------------
(* Program constants *)

\* multer limits.fileSize: 10 * 1024 * 1024
MaxFileSize == 10485760

\* taskId: taskId || null   /   data: { taskId: null }
NoTask == 0

\* dueDate null is the empty sequence, a date d is <<d>>
NullDate == << >>

allowedMimeTypes ==
    { "image/jpeg", "image/png", "image/gif", "image/webp", "application/pdf",
      "application/msword",
      "application/vnd.openxmlformats-officedocument.wordprocessingml.document",
      "application/vnd.ms-excel",
      "application/vnd.openxmlformats-officedocument.spreadsheetml.sheet",
      "text/plain", "text/csv" }

----------------------------------------------------------------------------
(* Inputs the requests are drawn from *)

\* request bodies of POST /tasks, before validation applies the defaults;
\* the title is "ab"
CreateBodies ==
    { [title |-> <<97, 98>>, priority |-> "HIGH", dueDate |-> <<1>>] }

\* request bodies of PUT /tasks/:id: one completes the task and clears its
\* due date, one renames it to "b"
UpdateBodies ==
    { [status |-> "COMPLETED", dueDate |-> NullDate], [title |-> <<98>>] }

\* request bodies of two PUT /tasks/:id sent together: both rename the task
\* (to "a", to "b"), each sets a field the other leaves out, and none sets
\* the priority
RaceUpdateBodies ==
    { [title |-> <<97>>, status |-> "IN_PROGRESS"], [title |-> <<98>>, dueDate |-> NullDate] }

\* uploads multer refuses: <<mimetype, size>>
RejectedUploads ==
    { <<"application/zip", MaxFileSize>>, <<"application/pdf", MaxFileSize + 1>>,
      <<"application/zip", MaxFileSize + 1>> }
UploadNames == { "a.pdf" }

\* the :filename of GET /files/download/:filename: the stored names uploads
\* can have been given
ServeNames == { <<n, ".pdf">> : n \in 1 .. MaxUploads }

\* r restricted to the fields in S: a request that gives only those
Pick(r, S) == [f \in S |-> r[f]]

\* request bodies of POST /tasks for the list and stats routes: the titles
\* are "ab", "b" and "b", the descriptions absent, "a" and ""
ListBodies ==
    { [title |-> <<97, 98>>],
      [title |-> <<98>>, description |-> <<97>>, status |-> "COMPLETED",
       priority |-> "HIGH", dueDate |-> <<1>>],
      [title |-> <<98>>, description |-> << >>, status |-> "IN_PROGRESS",
       priority |-> "HIGH", dueDate |-> <<1>>] }

\* search terms: "", " " and " a "
Searches == { << >>, <<32>>, <<32, 97, 32>> }

\* queries of GET /tasks that filter and search, on the default page
FilterQueries ==
    { Pick([status |-> "IN_PROGRESS", priority |-> "HIGH", search |-> x], S) :
        x \in Searches, S \in SUBSET {"status", "priority", "search"} }

\* the default order, title ascending, dueDate in the default direction
Sorts ==
    { Pick([sortBy |-> "title", sortOrder |-> "asc"], {}),
      [sortBy |-> "title", sortOrder |-> "asc"],
      [sortBy |-> "dueDate"] }

\* queries of GET /tasks that sort and page
PageQueries ==
    { [f \in DOMAIN o \cup {"page", "limit"} |->
            IF f = "page" THEN p ELSE IF f = "limit" THEN l ELSE o[f]] :
        p \in 1 .. (MaxTasks + 1), l \in 1 .. MaxTasks, o \in Sorts }

ListQueries == FilterQueries \cup PageQueries

\* new Date() at the stats request
Nows == 1 .. 2

----------------------------------------------------------------------------
(* Responses *)

Resp(status, error, data) == [status |-> status, error |-> error, data |-> data]
NoResp == Resp(0, "", << >>)
Ok(data) == Resp(200, "", <<data>>)
Created(data) == Resp(201, "", <<data>>)
Error(status, error) == Resp(status, error, << >>)

----------------------------------------------------------------------------
(* The persistence layer (Prisma over PostgreSQL) *)

\* f with key k removed
Without(f, k) == [x \in (DOMAIN f) \ {k} |-> f[x]]

\* f with key k bound to v
With(f, k, v) == [x \in (DOMAIN f) \cup {k} |-> IF x = k THEN v ELSE f[x]]

Has(body, field) == field \in DOMAIN body

\* validateRequest(schema): the handler sees the value the schema validation
\* returned, defaults applied, in place of what the client sent
validateRequest(validated) == validated

\* prisma.task.findFirst({ where: { id, userId } }): <<task>> or << >> (null)
TaskFindFirstAnyOwner(id, userId) ==
    IF id \in DOMAIN tasks THEN <<tasks[id]>> ELSE << >>

TaskFindFirst(id, userId) ==
    IF id \in DOMAIN tasks /\ tasks[id].userId = userId THEN <<tasks[id]>> ELSE << >>

\* prisma.file.findFirst({ where: { id, userId } }): <<file>> or << >> (null)
FileFindFirstAnyOwner(id, userId) ==
    IF id \in DOMAIN files THEN <<files[id]>> ELSE << >>

FileFindFirst(id, userId) ==
    IF id \in DOMAIN files /\ files[id].userId = userId THEN <<files[id]>> ELSE << >>

\* prisma.file.findFirst({ where: { filename, userId } }): <<file>> or << >>
FileFindFirstByNameAnyOwner(filename, userId) ==
    IF \E id \in DOMAIN files : files[id].filename = filename
    THEN <<files[CHOOSE id \in DOMAIN files : files[id].filename = filename]>>
    ELSE << >>

FileFindFirstByName(filename, userId) ==
    IF \E id \in DOMAIN files : files[id].filename = filename /\ files[id].userId = userId
    THEN <<files[CHOOSE id \in DOMAIN files :
                    files[id].filename = filename /\ files[id].userId = userId]>>
    ELSE << >>

\* include: { files: { select: { id, filename, originalName, mimeType, size, createdAt } } }
FileSelectAll(f) == f

FileSelect(f) ==
    [id |-> f.id, filename |-> f.filename, originalName |-> f.originalName,
     mimeType |-> f.mimeType, size |-> f.size, createdAt |-> f.createdAt]

FilesOfTask(fs, taskId) == { FileSelect(fs[f]) : f \in { x \in DOMAIN fs : fs[x].taskId = taskId } }

\* a task as the task routes answer it: the record plus its files projection
TaskView(t, fs) ==
    [id |-> t.id, userId |-> t.userId, title |-> t.title, description |-> t.description,
     status |-> t.status, priority |-> t.priority, dueDate |-> t.dueDate,
     createdAt |-> t.createdAt, files |-> FilesOfTask(fs, t.id)]

\* include: { task: { select: { id, title } } }
TaskSummary(ts, taskId) ==
    IF taskId \in DOMAIN ts THEN <<[id |-> taskId, title |-> ts[taskId].title]>> ELSE << >>

\* a file as GET /files/:id and PUT /files/:id/attach/:taskId answer it:
\* the whole record (include adds the task summary)
FileWithTask(f, ts) ==
    [id |-> f.id, filename |-> f.filename, originalName |-> f.originalName,
     mimeType |-> f.mimeType, size |-> f.size, gcsPath |-> f.gcsPath,
     userId |-> f.userId, taskId |-> f.taskId, createdAt |-> f.createdAt,
     task |-> TaskSummary(ts, f.taskId)]

\* the relation File.taskId -> Task.id with the referential action SetNull:
\* deleting a Task nullifies taskId of its files in the same statement
OnDeleteSetNull(fs, taskId) ==
    [f \in DOMAIN fs |-> IF fs[f].taskId = taskId THEN [fs[f] EXCEPT !.taskId = NoTask] ELSE fs[f]]

\* the foreign key File.taskId -> Task.id: a write of taskId is refused
\* unless it is null or names an existing Task
ForeignKeyOk(ts, taskId) == taskId = NoTask \/ taskId \in DOMAIN ts

----------------------------------------------------------------------------
(* Request slots *)

\* op, uid, id, taskId, body, name, mime, size: the request;
\* pc: where the handler stands; gcsPath: file.gcsPath of the file looked up;
\* up: uploadResult; prev: the File's taskId just before attach or detach wrote it;
\* puts, dels, signs: calls of uploadFile, deleteFile and getSignedUrl made
\* for the request; found, counted: what findMany and count of GET /tasks
\* returned, once each has
IdleSlot ==
    [op |-> "none", pc |-> "idle", uid |-> "", id |-> 0, taskId |-> NoTask,
     body |-> << >>, name |-> "", mime |-> "", size |-> 0,
     gcsPath |-> << >>, up |-> << >>, prev |-> NoTask, puts |-> 0, dels |-> 0,
     signs |-> 0, found |-> << >>, counted |-> << >>, resp |-> NoResp]

Free(s) == slots[s].pc \in {"idle", "done", "crashed"}

\* a new request of user u in slot s
Request(op, u, id) == [IdleSlot EXCEPT !.op = op, !.uid = u, !.id = id, !.pc = "run"]

Reply(r, resp) == [r EXCEPT !.pc = "done", !.resp = resp]

\* slot s takes request r; the slots of finished requests are recycled
Start(s, r) == [x \in Slots |-> IF x = s THEN r ELSE IF Free(x) THEN IdleSlot ELSE slots[x]]

TaskNotFound == Error(404, "Task not found")
FileNotFound == Error(404, "File not found")
InternalError == Error(500, "Internal server error")

----------------------------------------------------------------------------
(* Text, and the list query *)

\* a string is the sequence of its character codes
Space == 32

\* String.prototype.trim(), one end at a time
RECURSIVE TrimStart(_)
TrimStart(str) ==
    IF str # << >> /\ Head(str) = Space THEN TrimStart(Tail(str)) ELSE str

RECURSIVE TrimEnd(_)
TrimEnd(str) ==
    IF str # << >> /\ str[Len(str)] = Space THEN TrimEnd(SubSeq(str, 1, Len(str) - 1)) ELSE str

trim(str) == TrimEnd(TrimStart(str))

\* { contains: term } on a text column: term occurs in str, case for case
Contains(str, term) ==
    \E i \in 0 .. (Len(str) - Len(term)) : SubSeq(str, i + 1, i + Len(term)) = term

\* { description: { contains: term } }: a null column matches nothing
ContainsNullable(opt, term) == opt # << >> /\ Contains(opt[1], term)

\* Math.ceil(a / b) for b > 0
Ceil(a, b) == (a + b - 1) \div b

Min(a, b) == IF a <= b THEN a ELSE b

\* querySchema: the defaults of page, limit, sortBy and sortOrder
ValidateQuery(q) ==
    [status |-> IF Has(q, "status") THEN <<q.status>> ELSE << >>,
     priority |-> IF Has(q, "priority") THEN <<q.priority>> ELSE << >>,
     search |-> IF Has(q, "search") THEN <<q.search>> ELSE << >>,
     page |-> IF Has(q, "page") THEN q.page ELSE 1,
     limit |-> IF Has(q, "limit") THEN q.limit ELSE 10,
     sortBy |-> IF Has(q, "sortBy") THEN q.sortBy ELSE "createdAt",
     sortOrder |-> IF Has(q, "sortOrder") THEN q.sortOrder ELSE "desc"]

\* if (search && search.trim())
HasSearch(v) == v.search # << >> /\ v.search[1] # << >> /\ trim(v.search[1]) # << >>

\* the where clause of GET /tasks, without the owner: baseFilters, and the
\* OR of the two contains when a search term is given
WhereNoOwner(t, u, v) ==
    /\ (v.status # << >> => t.status = v.status[1])
    /\ (v.priority # << >> => t.priority = v.priority[1])
    /\ (HasSearch(v) =>
            \/ Contains(t.title, trim(v.search[1]))
            \/ ContainsNullable(t.description, trim(v.search[1])))

Where(t, u, v) ==
    /\ t.userId = u
    /\ (v.status # << >> => t.status = v.status[1])
    /\ (v.priority # << >> => t.priority = v.priority[1])
    /\ (HasSearch(v) =>
            \/ Contains(t.title, trim(v.search[1]))
            \/ ContainsNullable(t.description, trim(v.search[1])))

\* the rows findMany({ where }) selects, as the set of their ids
Matching(ts, u, v) == { id \in DOMAIN ts : Where(ts[id], u, v) }

\* prisma.task.count({ where })
CountUnfiltered(ts, u, v) == Cardinality({ id \in DOMAIN ts : ts[id].userId = u })

Count(ts, u, v) == Cardinality({ id \in DOMAIN ts : Where(ts[id], u, v) })

\* lexicographic order of two strings
RECURSIVE StrLess(_, _)
StrLess(a, b) ==
    IF b = << >> THEN FALSE
    ELSE IF a = << >> THEN TRUE
    ELSE IF Head(a) # Head(b) THEN Head(a) < Head(b)
    ELSE StrLess(Tail(a), Tail(b))

\* t1 sorts strictly before t2 in ascending order of the column; a null
\* dueDate sorts after every date (NULLS LAST ascending, so first descending)
AscBefore(t1, t2, sortBy) ==
    CASE sortBy = "createdAt" -> t1.createdAt < t2.createdAt
      [] sortBy = "title" -> StrLess(t1.title, t2.title)
      [] sortBy = "dueDate" ->
            /\ t1.dueDate # NullDate
            /\ (t2.dueDate = NullDate \/ t1.dueDate[1] < t2.dueDate[1])

\* orderBy[sortBy] = sortOrder: the orders the database may return the rows
\* in; rows with equal keys come in any order, chosen anew by each query
OrderBy(ts, ids, sortBy, sortOrder) ==
    { o \in [1 .. Cardinality(ids) -> ids] :
        /\ \A i, j \in DOMAIN o : i # j => o[i] # o[j]
        /\ \A i, j \in DOMAIN o : i < j =>
              IF sortOrder = "asc"
              THEN ~AscBefore(ts[o[j]], ts[o[i]], sortBy)
              ELSE ~AscBefore(ts[o[i]], ts[o[j]], sortBy) }

\* skip and take
Page(o, skip, take) == SubSeq(o, skip + 1, Min(skip + take, Len(o)))

----------------------------------------------------------------------------
(* Task routes *)

\* router.get('/'): findMany and count over the same where, then the page;
\* with no write between the two queries both read the same table
ListTasks(s, u, q) ==
    /\ Free(s)
    /\ LET v == validateRequest(ValidateQuery(q))
           skip == (v.page - 1) * v.limit
           ids == Matching(tasks, u, v)
           total == Count(tasks, u, v)
       IN  \E o \in OrderBy(tasks, ids, v.sortBy, v.sortOrder) :
            LET page == Page(o, skip, v.limit) IN
            slots' = Start(s, Reply([Request("list", u, 0) EXCEPT !.body = q],
                        Ok([tasks |-> [i \in DOMAIN page |-> TaskView(tasks[page[i]], files)],
                            pagination |-> [page |-> v.page, limit |-> v.limit,
                                            total |-> total,
                                            pages |-> Ceil(total, v.limit)]])))
    /\ UNCHANGED <<tasks, files, objects, nextTaskId, nextFileId, nextUuid, isLocalDev, bucketEnv>>

\* GET /tasks query by query, for requests that run beside writes: Promise.all
\* sends findMany and count as two statements with no transaction around
\* them, so either may run first and a write may commit between them
ListTasksStart(s, u, q) ==
    /\ Free(s)
    /\ slots' = Start(s, [Request("list", u, 0) EXCEPT !.body = q, !.pc = "queries"])
    /\ UNCHANGED <<tasks, files, objects, nextTaskId, nextFileId, nextUuid, isLocalDev, bucketEnv>>

\* res.json({ tasks, pagination: { page, limit, total, pages } })
ListResponse(v, rows, total) ==
    Ok([tasks |-> rows,
        pagination |-> [page |-> v.page, limit |-> v.limit, total |-> total,
                        pages |-> Ceil(total, v.limit)]])

\* prisma.task.findMany({ where, include, orderBy, skip, take })
ListTasksFindMany(s) ==
    /\ slots[s].op = "list" /\ slots[s].pc = "queries" /\ slots[s].found = << >>
    /\ LET u == slots[s].uid
           v == validateRequest(ValidateQuery(slots[s].body))
           skip == (v.page - 1) * v.limit
           ids == Matching(tasks, u, v)
       IN  \E o \in OrderBy(tasks, ids, v.sortBy, v.sortOrder) :
            LET page == Page(o, skip, v.limit)
                rows == [i \in DOMAIN page |-> TaskView(tasks[page[i]], files)]
                r == [slots[s] EXCEPT !.found = <<rows>>]
            IN  slots' = [slots EXCEPT ![s] =
                    IF r.counted = << >> THEN r
                    ELSE Reply(r, ListResponse(v, rows, r.counted[1]))]
    /\ UNCHANGED <<tasks, files, objects, nextTaskId, nextFileId, nextUuid, isLocalDev, bucketEnv>>

\* prisma.task.count({ where })
ListTasksCount(s) ==
    /\ slots[s].op = "list" /\ slots[s].pc = "queries" /\ slots[s].counted = << >>
    /\ LET u == slots[s].uid
           v == validateRequest(ValidateQuery(slots[s].body))
           total == Count(tasks, u, v)
           r == [slots[s] EXCEPT !.counted = <<total>>]
       IN  slots' = [slots EXCEPT ![s] =
                IF r.found = << >> THEN r
                ELSE Reply(r, ListResponse(v, r.found[1], total))]
    /\ UNCHANGED <<tasks, files, objects, nextTaskId, nextFileId, nextUuid, isLocalDev, bucketEnv>>

\* router.get('/:id')
GetTask(s, u, id) ==
    /\ Free(s)
    /\ LET task == TaskFindFirst(id, u)
           r == Request("getTask", u, id)
       IN  slots' = Start(s, IF task = << >>
                             THEN Reply(r, TaskNotFound)
                             ELSE Reply(r, Ok(TaskView(task[1], files))))
    /\ UNCHANGED <<tasks, files, objects, nextTaskId, nextFileId, nextUuid, isLocalDev, bucketEnv>>

\* createTaskSchema: status and priority default to PENDING and MEDIUM
ValidateCreateNoDefaults(body) ==
    [title |-> body.title,
     description |-> IF Has(body, "description") THEN <<body.description>> ELSE << >>,
     status |-> IF Has(body, "status") THEN body.status ELSE "",
     priority |-> IF Has(body, "priority") THEN body.priority ELSE "",
     dueDate |-> IF Has(body, "dueDate") THEN body.dueDate ELSE NullDate]

ValidateCreate(body) ==
    [title |-> body.title,
     description |-> IF Has(body, "description") THEN <<body.description>> ELSE << >>,
     status |-> IF Has(body, "status") THEN body.status ELSE "PENDING",
     priority |-> IF Has(body, "priority") THEN body.priority ELSE "MEDIUM",
     dueDate |-> IF Has(body, "dueDate") THEN body.dueDate ELSE NullDate]

\* router.post('/'); createdAt is the time of the insert, and the n-th
\* insert happens at time n
CreateTask(s, u, body) ==
    /\ Free(s)
    /\ nextTaskId <= MaxTasks
    /\ LET v == validateRequest(ValidateCreate(body))
           task == [id |-> nextTaskId, userId |-> u, title |-> v.title,
                    description |-> v.description, status |-> v.status,
                    priority |-> v.priority, dueDate |-> v.dueDate,
                    createdAt |-> nextTaskId]
       IN  /\ tasks' = With(tasks, nextTaskId, task)
           /\ slots' = Start(s, Reply([Request("createTask", u, nextTaskId) EXCEPT !.body = body],
                                      Created(TaskView(task, files))))
    /\ nextTaskId' = nextTaskId + 1
    /\ UNCHANGED <<files, objects, nextFileId, nextUuid, isLocalDev, bucketEnv>>

\* router.put('/:id'): the ownership lookup
UpdateTaskFind(s, u, id, body) ==
    /\ Free(s)
    /\ LET r == [Request("updateTask", u, id) EXCEPT !.body = body]
       IN  slots' = Start(s, IF TaskFindFirst(id, u) = << >>
                             THEN Reply(r, TaskNotFound)
                             ELSE [r EXCEPT !.pc = "update"])
    /\ UNCHANGED <<tasks, files, objects, nextTaskId, nextFileId, nextUuid, isLocalDev, bucketEnv>>

\* data: { ...(title !== undefined && { title }), ... }
ApplyUpdateAllFields(t, body) ==
    [t EXCEPT
        !.title = IF Has(body, "title") THEN body.title ELSE @,
        !.description = IF Has(body, "description") THEN <<body.description>> ELSE @,
        !.status = IF Has(body, "status") THEN body.status ELSE @,
        !.priority = IF Has(body, "priority") THEN body.priority ELSE @,
        !.dueDate = IF Has(body, "dueDate") THEN body.dueDate ELSE NullDate]

ApplyUpdate(t, body) ==
    [t EXCEPT
        !.title = IF Has(body, "title") THEN body.title ELSE @,
        !.description = IF Has(body, "description") THEN <<body.description>> ELSE @,
        !.status = IF Has(body, "status") THEN body.status ELSE @,
        !.priority = IF Has(body, "priority") THEN body.priority ELSE @,
        !.dueDate = IF Has(body, "dueDate") THEN body.dueDate ELSE @]

\* router.put('/:id'): prisma.task.update({ where: { id } }), which throws
\* when the row is gone
UpdateTaskWriteRejectsConflict(s) ==
    /\ slots[s].op = "updateTask" /\ slots[s].pc = "update"
    /\ LET id == slots[s].id IN
       IF id \in DOMAIN tasks
          /\ ~\E s2 \in Slots \ {s} :
                slots[s2].op = "updateTask" /\ slots[s2].pc = "done" /\ slots[s2].id = id
       THEN LET task == ApplyUpdate(tasks[id], slots[s].body) IN
            /\ tasks' = [tasks EXCEPT ![id] = task]
            /\ slots' = [slots EXCEPT ![s] = Reply(@, Ok(TaskView(task, files)))]
       ELSE /\ tasks' = tasks
            /\ slots' = [slots EXCEPT ![s] = Reply(@, InternalError)]
    /\ UNCHANGED <<files, objects, nextTaskId, nextFileId, nextUuid, isLocalDev, bucketEnv>>

UpdateTaskWrite(s) ==
    /\ slots[s].op = "updateTask" /\ slots[s].pc = "update"
    /\ LET id == slots[s].id IN
       IF id \in DOMAIN tasks
       THEN LET task == ApplyUpdate(tasks[id], slots[s].body) IN
            /\ tasks' = [tasks EXCEPT ![id] = task]
            /\ slots' = [slots EXCEPT ![s] = Reply(@, Ok(TaskView(task, files)))]
       ELSE /\ tasks' = tasks
            /\ slots' = [slots EXCEPT ![s] = Reply(@, InternalError)]
    /\ UNCHANGED <<files, objects, nextTaskId, nextFileId, nextUuid, isLocalDev, bucketEnv>>

\* router.delete('/:id'): the ownership lookup
DeleteTaskFind(s, u, id) ==
    /\ Free(s)
    /\ LET r == Request("deleteTask", u, id)
       IN  slots' = Start(s, IF TaskFindFirst(id, u) = << >>
                             THEN Reply(r, TaskNotFound)
                             ELSE [r EXCEPT !.pc = "delete"])
    /\ UNCHANGED <<tasks, files, objects, nextTaskId, nextFileId, nextUuid, isLocalDev, bucketEnv>>

\* prisma.file.deleteMany({ where: { taskId } })
FileDeleteMany(fs, taskId) ==
    [f \in { x \in DOMAIN fs : fs[x].taskId # taskId } |-> fs[f]]

\* router.delete('/:id'): prisma.task.delete({ where: { id } })
DeleteTaskWriteFiles(s) ==
    /\ slots[s].op = "deleteTask" /\ slots[s].pc = "delete"
    /\ LET id == slots[s].id IN
       IF id \in DOMAIN tasks
       THEN /\ tasks' = Without(tasks, id)
            /\ files' = OnDeleteSetNull(FileDeleteMany(files, id), id)
            /\ slots' = [slots EXCEPT ![s] = Reply(@, Resp(200, "", << >>))]
       ELSE /\ UNCHANGED <<tasks, files>>
            /\ slots' = [slots EXCEPT ![s] = Reply(@, InternalError)]
    /\ UNCHANGED <<objects, nextTaskId, nextFileId, nextUuid, isLocalDev, bucketEnv>>

DeleteTaskWrite(s) ==
    /\ slots[s].op = "deleteTask" /\ slots[s].pc = "delete"
    /\ LET id == slots[s].id IN
       IF id \in DOMAIN tasks
       THEN /\ tasks' = Without(tasks, id)
            /\ files' = OnDeleteSetNull(files, id)
            /\ slots' = [slots EXCEPT ![s] = Reply(@, Resp(200, "", << >>))]
       ELSE /\ UNCHANGED <<tasks, files>>
            /\ slots' = [slots EXCEPT ![s] = Reply(@, InternalError)]
    /\ UNCHANGED <<objects, nextTaskId, nextFileId, nextUuid, isLocalDev, bucketEnv>>

\* prisma.task.count({ where: { userId, status } })
CountStatus(ts, u, status) ==
    Cardinality({ id \in DOMAIN ts : ts[id].userId = u /\ ts[id].status = status })

\* prisma.task.count({ where: { userId, status: { in: [...] }, dueDate: { lt: now } } })
CountOverdueAnyStatus(ts, u, now) ==
    Cardinality({ id \in DOMAIN ts :
        /\ ts[id].userId = u
        /\ ts[id].dueDate # NullDate /\ ts[id].dueDate[1] < now })

CountOverdue(ts, u, now) ==
    Cardinality({ id \in DOMAIN ts :
        /\ ts[id].userId = u
        /\ ts[id].status \in {"PENDING", "IN_PROGRESS"}
        /\ ts[id].dueDate # NullDate /\ ts[id].dueDate[1] < now })

\* router.get('/stats/overview'); the request time is kept in the slot's body
Stats(s, u, now) ==
    /\ Free(s)
    /\ slots' = Start(s, Reply([Request("stats", u, 0) EXCEPT !.body = [now |-> now]],
            Ok([total |-> Cardinality({ id \in DOMAIN tasks : tasks[id].userId = u }),
                pending |-> CountStatus(tasks, u, "PENDING"),
                inProgress |-> CountStatus(tasks, u, "IN_PROGRESS"),
                completed |-> CountStatus(tasks, u, "COMPLETED"),
                overdue |-> CountOverdue(tasks, u, now)])))
    /\ UNCHANGED <<tasks, files, objects, nextTaskId, nextFileId, nextUuid, isLocalDev, bucketEnv>>

----------------------------------------------------------------------------
(* Global error handler *)

\* errorHandler(err): the MulterError branch and the default branch;
\* production is process.env.NODE_ENV === 'production', read at each call
errorHandler(err, production) ==
    IF err.name = "MulterError"
    THEN Resp(400, "File upload error", <<[details |-> err.message]>>)
    ELSE IF production
         THEN Resp(500, "Something went wrong", << >>)
         ELSE Resp(500, err.message, <<[stack |-> "stack"]>>)

----------------------------------------------------------------------------
(* Storage module *)

\* path.extname(originalName)
extname(originalName) == IF originalName = "a.pdf" THEN ".pdf" ELSE ""

\* `${uuidv4()}${fileExtension}`; uuidv4() is a token no earlier call returned
GeneratedNameNoUuid(uuid, originalName) == <<0, extname(originalName)>>

GeneratedName(uuid, originalName) == <<uuid, extname(originalName)>>

\* users/<userId>/files/<filename> in the bucket, uploads/<userId>/<filename> on disk
Locator(userId, filename) ==
    IF isLocalDev THEN <<"uploads", userId, filename>> ELSE <<"users", userId, "files", filename>>

\* path.basename(gcsPath)
basename(gcsPath) == gcsPath[Len(gcsPath)]

\* uploadFile: the result of a successful put
UploadResult(originalName, userId) ==
    [filename |-> GeneratedName(nextUuid, originalName),
     gcsPath |-> Locator(userId, GeneratedName(nextUuid, originalName))]

\* deleteFile: whether the call returns (TRUE) or throws, given whether the
\* backend call itself went through.  On disk a missing file is skipped; in the
\* bucket deleting a missing object is an error.
DeleteSucceeds(gcsPath, backendOk) ==
    IF isLocalDev
    THEN (gcsPath \notin objects) \/ backendOk
    ELSE (gcsPath \in objects) /\ backendOk

\* getSignedUrl(gcsPath, 'read')
SignedUrl(gcsPath) ==
    IF isLocalDev THEN <<"http://localhost/files/download", basename(gcsPath)>>
    ELSE <<"signed", gcsPath>>

----------------------------------------------------------------------------
(* File routes *)

\* multer: fileFilter, then limits.fileSize; << >> when the file is accepted
MulterNoSizeLimit(mime, size) ==
    IF mime \notin allowedMimeTypes
    THEN <<[name |-> "Error", message |-> "File type not allowed"]>>
    ELSE << >>

MulterRejects(mime, size) ==
    IF mime \notin allowedMimeTypes
    THEN <<[name |-> "Error", message |-> "File type not allowed"]>>
    ELSE IF size > MaxFileSize
         THEN <<[name |-> "MulterError", message |-> "File too large"]>>
         ELSE << >>

\* router.post('/upload'): multer, then the task ownership lookup
UploadStart(s, u, name, mime, size, taskId) ==
    /\ Free(s)
    /\ LET r == [Request("upload", u, 0) EXCEPT
                    !.name = name, !.mime = mime, !.size = size, !.taskId = taskId]
           rejected == MulterRejects(mime, size)
       IN  \E production \in BOOLEAN :
            slots' = Start(s,
                IF rejected # << >>
                THEN Reply(r, errorHandler(rejected[1], production))
                ELSE IF taskId # NoTask /\ TaskFindFirst(taskId, u) = << >>
                     THEN Reply(r, TaskNotFound)
                     ELSE [r EXCEPT !.pc = "put"])
    /\ UNCHANGED <<tasks, files, objects, nextTaskId, nextFileId, nextUuid, isLocalDev, bucketEnv>>

\* router.post('/upload'): if (!req.file)
UploadNoFile(s, u) ==
    /\ Free(s)
    /\ slots' = Start(s, Reply(Request("upload", u, 0), Error(400, "No file provided")))
    /\ UNCHANGED <<tasks, files, objects, nextTaskId, nextFileId, nextUuid, isLocalDev, bucketEnv>>

\* router.post('/upload'): await uploadFile(...); the put succeeds or throws
UploadPutSwallowsError(s) ==
    /\ slots[s].op = "upload" /\ slots[s].pc = "put"
    /\ nextUuid <= MaxUploads
    /\ \E backendOk \in BOOLEAN :
        LET up == UploadResult(slots[s].name, slots[s].uid) IN
        /\ objects' = IF backendOk THEN objects \cup {up.gcsPath} ELSE objects
        /\ nextUuid' = nextUuid + 1
        /\ slots' = [slots EXCEPT ![s] = [@ EXCEPT !.pc = "create", !.up = <<up>>, !.puts = @ + 1]]
    /\ UNCHANGED <<tasks, files, nextTaskId, nextFileId, isLocalDev, bucketEnv>>

UploadPut(s) ==
    /\ slots[s].op = "upload" /\ slots[s].pc = "put"
    /\ nextUuid <= MaxUploads
    /\ \E backendOk \in BOOLEAN :
        IF backendOk
        THEN LET up == UploadResult(slots[s].name, slots[s].uid) IN
             /\ objects' = objects \cup {up.gcsPath}
             /\ nextUuid' = nextUuid + 1
             /\ slots' = [slots EXCEPT ![s] = [@ EXCEPT !.pc = "create", !.up = <<up>>, !.puts = @ + 1]]
        ELSE /\ UNCHANGED <<objects, nextUuid>>
             /\ slots' = [slots EXCEPT ![s] =
                    Reply([@ EXCEPT !.puts = @ + 1], Error(500, "Failed to upload file"))]
    /\ UNCHANGED <<tasks, files, nextTaskId, nextFileId, isLocalDev, bucketEnv>>

\* the file object of the upload response
UploadedFile(f) ==
    [id |-> f.id, filename |-> f.filename, originalName |-> f.originalName,
     mimeType |-> f.mimeType, size |-> f.size, createdAt |-> f.createdAt,
     taskId |-> f.taskId]

\* router.post('/upload'): await prisma.file.create(...); the catch block
\* answers 500 when the insert throws; the n-th insert happens at time n
UploadCreate(s) ==
    /\ slots[s].op = "upload" /\ slots[s].pc = "create"
    /\ nextFileId <= MaxUploads
    /\ \E dbOk \in BOOLEAN :
        IF dbOk /\ ForeignKeyOk(tasks, slots[s].taskId)
        THEN LET f == [id |-> nextFileId, filename |-> slots[s].up[1].filename,
                       originalName |-> slots[s].name, mimeType |-> slots[s].mime,
                       size |-> slots[s].size, gcsPath |-> slots[s].up[1].gcsPath,
                       userId |-> slots[s].uid, taskId |-> slots[s].taskId,
                       createdAt |-> nextFileId] IN
             /\ files' = With(files, nextFileId, f)
             /\ nextFileId' = nextFileId + 1
             /\ slots' = [slots EXCEPT ![s] = Reply([@ EXCEPT !.id = nextFileId], Created(UploadedFile(f)))]
        ELSE /\ UNCHANGED <<files, nextFileId>>
             /\ slots' = [slots EXCEPT ![s] = Reply(@, Error(500, "Failed to upload file"))]
    /\ UNCHANGED <<tasks, objects, nextTaskId, nextUuid, isLocalDev, bucketEnv>>

\* router.get('/:id') of the file routes
GetFile(s, u, id) ==
    /\ Free(s)
    /\ LET file == FileFindFirst(id, u)
           r == Request("getFile", u, id)
       IN  slots' = Start(s, IF file = << >>
                             THEN Reply(r, FileNotFound)
                             ELSE Reply(r, Ok(FileWithTask(file[1], tasks))))
    /\ UNCHANGED <<tasks, files, objects, nextTaskId, nextFileId, nextUuid, isLocalDev, bucketEnv>>

\* select: { id, filename, originalName, mimeType, size, createdAt, taskId,
\* task: { select: { id, title } } }
FileListItem(f, ts) ==
    [id |-> f.id, filename |-> f.filename, originalName |-> f.originalName,
     mimeType |-> f.mimeType, size |-> f.size, createdAt |-> f.createdAt,
     taskId |-> f.taskId, task |-> TaskSummary(ts, f.taskId)]

\* orderBy: { createdAt: 'desc' } over the files ids of fs
RECURSIVE NewestFirst(_, _)
NewestFirst(fs, ids) ==
    IF ids = {} THEN << >>
    ELSE LET newest == CHOOSE i \in ids : \A j \in ids : fs[j].createdAt <= fs[i].createdAt
         IN  <<newest>> \o NewestFirst(fs, ids \ {newest})

\* router.get('/') of the file routes: the requester's files, of one task
\* when the query names a task
ListFiles(s, u, taskId) ==
    /\ Free(s)
    /\ LET r == [Request("listFiles", u, 0) EXCEPT !.taskId = taskId]
           ids == { id \in DOMAIN files :
                      /\ files[id].userId = u
                      /\ taskId # NoTask => files[id].taskId = taskId }
           order == NewestFirst(files, ids)
       IN  slots' = Start(s, Reply(r,
                Ok([files |-> [i \in DOMAIN order |-> FileListItem(files[order[i]], tasks)]])))
    /\ UNCHANGED <<tasks, files, objects, nextTaskId, nextFileId, nextUuid, isLocalDev, bucketEnv>>

\* router.get('/:id/download'): the lookup, then getSignedUrl, which can
\* throw in object-storage mode only
DownloadLink(s, u, id) ==
    /\ Free(s)
    /\ LET file == FileFindFirst(id, u)
           r == [Request("download", u, id) EXCEPT !.signs = IF file = << >> THEN 0 ELSE 1]
       IN  \E backendOk \in BOOLEAN :
            slots' = Start(s,
                IF file = << >>
                THEN Reply(r, FileNotFound)
                ELSE IF isLocalDev \/ backendOk
                     THEN Reply(r, Ok([downloadUrl |-> SignedUrl(file[1].gcsPath),
                                       filename |-> file[1].originalName,
                                       mimeType |-> file[1].mimeType,
                                       size |-> file[1].size]))
                     ELSE Reply(r, Error(500, "Failed to generate download URL")))
    /\ UNCHANGED <<tasks, files, objects, nextTaskId, nextFileId, nextUuid, isLocalDev, bucketEnv>>

\* router.get('/download/:filename'): the lookup by stored name and owner, the
\* mode read from the environment at the request, the check that the file is
\* on disk, then sendFile
ServeLocalAnyMode(s, u, filename) ==
    /\ Free(s)
    /\ LET file == FileFindFirstByName(filename, u)
           r == [Request("serve", u, 0) EXCEPT !.body = [filename |-> filename]]
       IN  slots' = Start(s,
                IF file = << >>
                THEN Reply(r, FileNotFound)
                ELSE IF file[1].gcsPath \notin objects
                     THEN Reply(r, Error(404, "File not found on filesystem"))
                     ELSE Reply(r, Ok([sendFile |-> file[1].gcsPath,
                                       contentType |-> file[1].mimeType,
                                       attachment |-> file[1].originalName])))
    /\ UNCHANGED <<tasks, files, objects, nextTaskId, nextFileId, nextUuid, isLocalDev, bucketEnv>>

ServeLocal(s, u, filename) ==
    /\ Free(s)
    /\ LET file == FileFindFirstByName(filename, u)
           r == [Request("serve", u, 0) EXCEPT !.body = [filename |-> filename]]
       IN  slots' = Start(s,
                IF file = << >>
                THEN Reply(r, FileNotFound)
                ELSE IF bucketEnv
                     THEN Reply(r, Error(404, "Direct file access not available in production"))
                     ELSE IF file[1].gcsPath \notin objects
                          THEN Reply(r, Error(404, "File not found on filesystem"))
                          ELSE Reply(r, Ok([sendFile |-> file[1].gcsPath,
                                            contentType |-> file[1].mimeType,
                                            attachment |-> file[1].originalName])))
    /\ UNCHANGED <<tasks, files, objects, nextTaskId, nextFileId, nextUuid, isLocalDev, bucketEnv>>

\* router.delete('/:id') of the file routes: the ownership lookup
DeleteFileFind(s, u, id) ==
    /\ Free(s)
    /\ LET file == FileFindFirst(id, u)
           r == Request("deleteFile", u, id)
       IN  slots' = Start(s, IF file = << >>
                             THEN Reply(r, FileNotFound)
                             ELSE [r EXCEPT !.pc = "unlink", !.gcsPath = file[1].gcsPath])
    /\ UNCHANGED <<tasks, files, objects, nextTaskId, nextFileId, nextUuid, isLocalDev, bucketEnv>>

\* router.delete('/:id'): await deleteFile(file.gcsPath)
DeleteFileStorageSkipped(s) ==
    /\ slots[s].op = "deleteFile" /\ slots[s].pc = "unlink"
    /\ slots' = [slots EXCEPT ![s] = [@ EXCEPT !.pc = "remove"]]
    /\ UNCHANGED <<tasks, files, objects, nextTaskId, nextFileId, nextUuid, isLocalDev, bucketEnv>>

DeleteFileStorageIgnoresError(s) ==
    /\ slots[s].op = "deleteFile" /\ slots[s].pc = "unlink"
    /\ LET gcsPath == slots[s].gcsPath IN
       \E backendOk \in BOOLEAN :
        /\ objects' = IF DeleteSucceeds(gcsPath, backendOk) THEN objects \ {gcsPath} ELSE objects
        /\ slots' = [slots EXCEPT ![s] = [@ EXCEPT !.pc = "remove", !.dels = @ + 1]]
    /\ UNCHANGED <<tasks, files, nextTaskId, nextFileId, nextUuid, isLocalDev, bucketEnv>>

DeleteFileStorage(s) ==
    /\ slots[s].op = "deleteFile" /\ slots[s].pc = "unlink"
    /\ LET gcsPath == slots[s].gcsPath IN
       \E backendOk \in BOOLEAN :
        IF DeleteSucceeds(gcsPath, backendOk)
        THEN /\ objects' = objects \ {gcsPath}
             /\ slots' = [slots EXCEPT ![s] = [@ EXCEPT !.pc = "remove", !.dels = @ + 1]]
        ELSE /\ objects' = objects
             /\ slots' = [slots EXCEPT ![s] =
                    Reply([@ EXCEPT !.dels = @ + 1], Error(500, "Failed to delete file"))]
    /\ UNCHANGED <<tasks, files, nextTaskId, nextFileId, nextUuid, isLocalDev, bucketEnv>>

\* router.delete('/:id'): await prisma.file.delete({ where: { id } })
DeleteFileRecord(s) ==
    /\ slots[s].op = "deleteFile" /\ slots[s].pc = "remove"
    /\ LET id == slots[s].id IN
       \E dbOk \in BOOLEAN :
        IF dbOk /\ id \in DOMAIN files
        THEN /\ files' = Without(files, id)
             /\ slots' = [slots EXCEPT ![s] = Reply(@, Resp(200, "", << >>))]
        ELSE /\ files' = files
             /\ slots' = [slots EXCEPT ![s] = Reply(@, Error(500, "Failed to delete file"))]
    /\ UNCHANGED <<tasks, objects, nextTaskId, nextFileId, nextUuid, isLocalDev, bucketEnv>>

\* router.put('/:id/attach/:taskId'): "Verify file ownership"
AttachFindFile(s, u, id, taskId) ==
    /\ Free(s)
    /\ LET file == FileFindFirst(id, u)
           r == [Request("attach", u, id) EXCEPT !.taskId = taskId]
       IN  slots' = Start(s, IF file = << >>
                             THEN Reply(r, FileNotFound)
                             ELSE [r EXCEPT !.pc = "findTask"])
    /\ UNCHANGED <<tasks, files, objects, nextTaskId, nextFileId, nextUuid, isLocalDev, bucketEnv>>

\* router.put('/:id/attach/:taskId'): "Verify task ownership"
AttachFindTaskSkipped(s) ==
    /\ slots[s].op = "attach" /\ slots[s].pc = "findTask"
    /\ slots' = [slots EXCEPT ![s] = [@ EXCEPT !.pc = "attach"]]
    /\ UNCHANGED <<tasks, files, objects, nextTaskId, nextFileId, nextUuid, isLocalDev, bucketEnv>>

AttachFindTask(s) ==
    /\ slots[s].op = "attach" /\ slots[s].pc = "findTask"
    /\ slots' = [slots EXCEPT ![s] =
            IF TaskFindFirst(slots[s].taskId, slots[s].uid) = << >>
            THEN Reply(@, TaskNotFound)
            ELSE [@ EXCEPT !.pc = "attach"]]
    /\ UNCHANGED <<tasks, files, objects, nextTaskId, nextFileId, nextUuid, isLocalDev, bucketEnv>>

\* router.put('/:id/attach/:taskId'): prisma.file.update({ where: { id }, data: { taskId } });
\* the update throws when the row is gone or the foreign key is violated
AttachWriteIfDetached(s) ==
    /\ slots[s].op = "attach" /\ slots[s].pc = "attach"
    /\ LET id == slots[s].id
           taskId == slots[s].taskId IN
       IF id \in DOMAIN files /\ ForeignKeyOk(tasks, taskId) /\ files[id].taskId = NoTask
       THEN LET f == [files[id] EXCEPT !.taskId = taskId] IN
            /\ files' = [files EXCEPT ![id] = f]
            /\ slots' = [slots EXCEPT ![s] =
                   Reply([@ EXCEPT !.prev = files[id].taskId], Ok(FileWithTask(f, tasks)))]
       ELSE /\ files' = files
            /\ slots' = [slots EXCEPT ![s] = Reply(@, InternalError)]
    /\ UNCHANGED <<tasks, objects, nextTaskId, nextFileId, nextUuid, isLocalDev, bucketEnv>>

AttachWrite(s) ==
    /\ slots[s].op = "attach" /\ slots[s].pc = "attach"
    /\ LET id == slots[s].id
           taskId == slots[s].taskId IN
       IF id \in DOMAIN files /\ ForeignKeyOk(tasks, taskId)
       THEN LET f == [files[id] EXCEPT !.taskId = taskId] IN
            /\ files' = [files EXCEPT ![id] = f]
            /\ slots' = [slots EXCEPT ![s] =
                   Reply([@ EXCEPT !.prev = files[id].taskId], Ok(FileWithTask(f, tasks)))]
       ELSE /\ files' = files
            /\ slots' = [slots EXCEPT ![s] = Reply(@, InternalError)]
    /\ UNCHANGED <<tasks, objects, nextTaskId, nextFileId, nextUuid, isLocalDev, bucketEnv>>

\* router.put('/:id/detach'): the ownership lookup
DetachFind(s, u, id) ==
    /\ Free(s)
    /\ LET file == FileFindFirst(id, u)
           r == Request("detach", u, id)
       IN  slots' = Start(s, IF file = << >>
                             THEN Reply(r, FileNotFound)
                             ELSE [r EXCEPT !.pc = "detach"])
    /\ UNCHANGED <<tasks, files, objects, nextTaskId, nextFileId, nextUuid, isLocalDev, bucketEnv>>

\* router.put('/:id/detach'): prisma.file.update({ where: { id }, data: { taskId: null } })
DetachWriteIfAttached(s) ==
    /\ slots[s].op = "detach" /\ slots[s].pc = "detach"
    /\ LET id == slots[s].id IN
       IF id \in DOMAIN files /\ files[id].taskId # NoTask
       THEN LET f == [files[id] EXCEPT !.taskId = NoTask] IN
            /\ files' = [files EXCEPT ![id] = f]
            /\ slots' = [slots EXCEPT ![s] = Reply([@ EXCEPT !.prev = files[id].taskId], Ok(f))]
       ELSE /\ files' = files
            /\ slots' = [slots EXCEPT ![s] = Reply(@, InternalError)]
    /\ UNCHANGED <<tasks, objects, nextTaskId, nextFileId, nextUuid, isLocalDev, bucketEnv>>

DetachWrite(s) ==
    /\ slots[s].op = "detach" /\ slots[s].pc = "detach"
    /\ LET id == slots[s].id IN
       IF id \in DOMAIN files
       THEN LET f == [files[id] EXCEPT !.taskId = NoTask] IN
            /\ files' = [files EXCEPT ![id] = f]
            /\ slots' = [slots EXCEPT ![s] = Reply([@ EXCEPT !.prev = files[id].taskId], Ok(f))]
       ELSE /\ files' = files
            /\ slots' = [slots EXCEPT ![s] = Reply(@, InternalError)]
    /\ UNCHANGED <<tasks, objects, nextTaskId, nextFileId, nextUuid, isLocalDev, bucketEnv>>

\* the process dies, or the connection is lost, between two awaits of a handler
Crash(s) ==
    /\ ~Free(s)
    /\ slots' = [slots EXCEPT ![s] = [@ EXCEPT !.pc = "crashed"]]
    /\ UNCHANGED <<tasks, files, objects, nextTaskId, nextFileId, nextUuid, isLocalDev, bucketEnv>>

----------------------------------------------------------------------------
(* The system *)

\* the environment is complete before storage.ts is loaded and is not
\* written afterwards, so the mode storage.ts fixes at load is the one a
\* later read of the environment gives
StartupConfiguration ==
    /\ bucketEnv \in BOOLEAN
    /\ isLocalDev = ~bucketEnv

Init ==
    /\ tasks = << >>
    /\ files = << >>
    /\ objects = {}
    /\ slots = [s \in Slots |-> IdleSlot]
    /\ nextTaskId = 1
    /\ nextFileId = 1
    /\ nextUuid = 1
    /\ StartupConfiguration

\* a request takes the lowest free slot (the slots are interchangeable)
Lowest(s) == Free(s) /\ \A s2 \in Slots : s2 < s => ~Free(s2)

\* a request that passes its first lookup and so stays in flight
InFlight(s) == slots'[s].pc # "done"

\* the file routes, one request at a time, with every kind of upload
\* (accepted with and without a task, rejected by multer, without a file)
\* and the task creations that give them tasks to attach to
Next ==
    \/ \E u \in Users, body \in CreateBodies : CreateTask(1, u, body)
    \/ \E u \in Users, name \in UploadNames, taskId \in TaskIds \cup {NoTask} :
            UploadStart(1, u, name, "application/pdf", MaxFileSize, taskId)
    \/ \E u \in Users, name \in UploadNames, in \in RejectedUploads :
            UploadStart(1, u, name, in[1], in[2], NoTask)
    \/ \E u \in Users : UploadNoFile(1, u)
    \/ UploadPut(1)
    \/ UploadCreate(1)
    \/ \E u \in Users, taskId \in TaskIds \cup {NoTask} : ListFiles(1, u, taskId)
    \/ \E u \in Users, id \in FileIds : GetFile(1, u, id)
    \/ \E u \in Users, id \in FileIds : DownloadLink(1, u, id)
    \/ \E u \in Users, filename \in ServeNames : ServeLocal(1, u, filename)
    \/ \E u \in Users, id \in FileIds : DeleteFileFind(1, u, id)
    \/ DeleteFileStorage(1)
    \/ DeleteFileRecord(1)
    \/ \E u \in Users, id \in FileIds, taskId \in TaskIds : AttachFindFile(1, u, id, taskId)
    \/ AttachFindTask(1)
    \/ AttachWrite(1)
    \/ \E u \in Users, id \in FileIds : DetachFind(1, u, id)
    \/ DetachWrite(1)

\* the task routes, one request at a time, and the uploads that give the
\* tasks files
NextTasks ==
    \/ \E u \in Users, id \in TaskIds : GetTask(1, u, id)
    \/ \E u \in Users : ListTasks(1, u, Pick([page |-> 1], {}))
    \/ \E u \in Users, body \in CreateBodies : CreateTask(1, u, body)
    \/ \E u \in Users, id \in TaskIds, body \in UpdateBodies : UpdateTaskFind(1, u, id, body)
    \/ UpdateTaskWrite(1)
    \/ \E u \in Users, id \in TaskIds : DeleteTaskFind(1, u, id)
    \/ DeleteTaskWrite(1)
    \/ \E u \in Users, name \in UploadNames, taskId \in TaskIds :
            UploadStart(1, u, name, "application/pdf", MaxFileSize, taskId) /\ InFlight(1)
    \/ UploadPut(1)
    \/ UploadCreate(1)

\* requests in flight together: the routes that write, interleaved at their
\* awaits, and a crash between any two awaits
NextRace ==
    \E s \in Slots :
        \/ \E u \in Users, body \in CreateBodies :
              nextTaskId <= MaxRaceTasks /\ Lowest(s) /\ CreateTask(s, u, body)
        \/ \E u \in Users, id \in TaskIds : Lowest(s) /\ DeleteTaskFind(s, u, id) /\ InFlight(s)
        \/ DeleteTaskWrite(s)
        \/ \E u \in Users, name \in UploadNames, taskId \in TaskIds \cup {NoTask} :
              Lowest(s) /\ UploadStart(s, u, name, "application/pdf", MaxFileSize, taskId) /\ InFlight(s)
        \/ nextUuid <= MaxRaceUploads /\ UploadPut(s)
        \/ UploadCreate(s)
        \/ \E u \in Users, id \in FileIds : Lowest(s) /\ DeleteFileFind(s, u, id) /\ InFlight(s)
        \/ DeleteFileStorage(s)
        \/ DeleteFileRecord(s)
        \/ \E u \in Users, id \in FileIds, taskId \in TaskIds :
              Lowest(s) /\ AttachFindFile(s, u, id, taskId) /\ InFlight(s)
        \/ AttachFindTask(s)
        \/ AttachWrite(s)
        \/ \E u \in Users, id \in FileIds : Lowest(s) /\ DetachFind(s, u, id) /\ InFlight(s)
        \/ DetachWrite(s)
        \/ Crash(s)

\* the list and stats routes, one request at a time, over tasks of every
\* status, priority, title, description and due date
NextList ==
    \/ \E u \in Users, body \in ListBodies : CreateTask(1, u, body)
    \/ \E u \in Users, q \in ListQueries : ListTasks(1, u, q)
    \/ \E u \in Users, now \in Nows : Stats(1, u, now)

\* the slot in which a user's requests run when each user has one request
\* in flight at a time
SlotOf(u) == IF u = "alice" THEN 1 ELSE 2

\* two users at work together: each sends one request at a time, and the
\* steps of the two requests interleave at their awaits
NextUsers ==
    \E u \in Users :
        LET s == SlotOf(u) IN
        \/ \E body \in CreateBodies : nextTaskId <= MaxRaceTasks /\ CreateTask(s, u, body)
        \/ \E id \in TaskIds, body \in UpdateBodies : UpdateTaskFind(s, u, id, body) /\ InFlight(s)
        \/ UpdateTaskWrite(s)
        \/ \E id \in TaskIds : DeleteTaskFind(s, u, id) /\ InFlight(s)
        \/ DeleteTaskWrite(s)
        \/ ListTasks(s, u, Pick([page |-> 1], {}))
        \/ \E now \in Nows : Stats(s, u, now)
        \/ \E name \in UploadNames, taskId \in TaskIds \cup {NoTask} :
              UploadStart(s, u, name, "application/pdf", MaxFileSize, taskId) /\ InFlight(s)
        \/ nextUuid <= MaxRaceUploads /\ UploadPut(s)
        \/ UploadCreate(s)
        \/ \E id \in FileIds : DeleteFileFind(s, u, id) /\ InFlight(s)
        \/ DeleteFileStorage(s)
        \/ DeleteFileRecord(s)
        \/ \E id \in FileIds, taskId \in TaskIds : AttachFindFile(s, u, id, taskId) /\ InFlight(s)
        \/ AttachFindTask(s)
        \/ AttachWrite(s)
        \/ \E id \in FileIds : DetachFind(s, u, id) /\ InFlight(s)
        \/ DetachWrite(s)

\* uploads and file deletions in flight together, of one user or of two,
\* all with the same original name, type and size
NextUploads ==
    \E s \in Slots :
        \/ \E u \in Users, name \in UploadNames :
              Lowest(s) /\ UploadStart(s, u, name, "application/pdf", MaxFileSize, NoTask)
        \/ UploadPut(s)
        \/ UploadCreate(s)
        \/ \E u \in Users, id \in FileIds : Lowest(s) /\ DeleteFileFind(s, u, id) /\ InFlight(s)
        \/ DeleteFileStorage(s)
        \/ DeleteFileRecord(s)

\* pairs of overlapping updates of one task: the second update of a pair
\* arrives while the first is between its lookup and its write, the two
\* writes come in either order, and a read or a creation separates one pair
\* from the next
NextUpdates ==
    \/ \E u \in Users, body \in CreateBodies :
            nextTaskId <= MaxRaceTasks /\ CreateTask(2, u, body)
    \/ \E u \in Users, id \in TaskIds : GetTask(2, u, id)
    \/ \E u \in Users, id \in TaskIds, body \in RaceUpdateBodies :
            /\ ~(slots[2].op = "updateTask" /\ slots[2].pc = "done")
            /\ UpdateTaskFind(1, u, id, body) /\ InFlight(1)
    \/ \E body \in RaceUpdateBodies :
            /\ slots[1].op = "updateTask" /\ slots[1].pc = "update"
            /\ UpdateTaskFind(2, slots[1].uid, slots[1].id, body) /\ InFlight(2)
    \/ \E s \in Slots : UpdateTaskWrite(s)

\* queries of GET /tasks sent beside writes: the defaults, and one task a page
RaceListQueries == { Pick([limit |-> 1], {}), [limit |-> 1] }

\* a list request in flight while the same or another user creates and
\* deletes tasks: the writes fall before, between and after its two queries
NextListRace ==
    \/ \E u \in Users, body \in CreateBodies :
            nextTaskId <= MaxRaceTasks /\ CreateTask(2, u, body)
    \/ \E u \in Users, id \in TaskIds : DeleteTaskFind(2, u, id) /\ InFlight(2)
    \/ DeleteTaskWrite(2)
    \/ \E u \in Users, q \in RaceListQueries : ListTasksStart(1, u, q)
    \/ ListTasksFindMany(1)
    \/ ListTasksCount(1)

Spec == Init /\ [][Next]_vars

SpecListRace == Init /\ [][NextListRace]_vars

SpecUpdates == Init /\ [][NextUpdates]_vars

SpecUploads == Init /\ [][NextUploads]_vars

SpecUsers == Init /\ [][NextUsers]_vars

SpecList == Init /\ [][NextList]_vars

SpecTasks == Init /\ [][NextTasks]_vars

SpecRace == Init /\ [][NextRace]_vars

----------------------------------------------------------------------------
(* Steps of requests, as the properties below name them *)

\* the step in which slot s takes a new request of kind op
Starts(s, op) == Free(s) /\ slots'[s] # slots[s] /\ slots'[s].op = op /\ slots'[s].pc # "idle"

\* the step in which the request in slot s goes from pc to its response
Finishes(s, op, pc) == slots[s].op = op /\ slots[s].pc = pc /\ slots'[s].pc = "done"

TaskIdOps == {"getTask", "updateTask", "deleteTask"}
FileIdOps == {"getFile", "download", "deleteFile", "attach", "detach"}

----------------------------------------------------------------------------
(* Ownership of tasks and files *)

\* C1: get, update and delete of a task by a user who does not own it answer
\* exactly what they answer for an id that names no task (404 "Task not
\* found", no data), and leave the Task table and the File table as they were.
C1_ForeignTaskIsNotFound ==
    [][\A s \in Slots, op \in TaskIdOps :
        Starts(s, op) =>
            LET u == slots'[s].uid
                id == slots'[s].id
            IN  (id \notin DOMAIN tasks \/ tasks[id].userId # u) =>
                    /\ slots'[s].pc = "done"
                    /\ slots'[s].resp = TaskNotFound
                    /\ tasks' = tasks
                    /\ files' = files]_vars

\* C1 witness: a delete or update of another user's existing task was answered 404
C1_Witness ==
    \E s \in Slots :
        /\ slots[s].pc = "done" /\ slots[s].op \in {"updateTask", "deleteTask"}
        /\ slots[s].id \in DOMAIN tasks
        /\ tasks[slots[s].id].userId # slots[s].uid
        /\ slots[s].resp = TaskNotFound

\* C2: get-metadata, download-link, delete, attach and detach of a file by a
\* user who does not own it answer 404 with no data, and leave the file's
\* record and every stored object as they were.
C2_ForeignFileIsNotFound ==
    [][\A s \in Slots, op \in FileIdOps :
        Starts(s, op) =>
            LET u == slots'[s].uid
                id == slots'[s].id
            IN  (id \in DOMAIN files /\ files[id].userId # u) =>
                    /\ slots'[s].pc = "done"
                    /\ slots'[s].resp.status = 404
                    /\ slots'[s].resp.data = << >>
                    /\ files' = files
                    /\ objects' = objects]_vars

\* C2 witness: a delete of another user's existing file was answered 404 and
\* the file and its object are still there
C2_Witness ==
    \E s \in Slots :
        /\ slots[s].pc = "done" /\ slots[s].op = "deleteFile"
        /\ slots[s].id \in DOMAIN files
        /\ files[slots[s].id].userId # slots[s].uid
        /\ files[slots[s].id].gcsPath \in objects
        /\ slots[s].resp.status = 404

\* C3: every file whose taskId is set references a task that exists and has
\* the file's owner, under every interleaving of upload, attach, detach,
\* task delete and file delete, and with crashes between awaits.
C3_TaskIdReferencesOwnTask ==
    \A f \in DOMAIN files :
        files[f].taskId # NoTask =>
            /\ files[f].taskId \in DOMAIN tasks
            /\ tasks[files[f].taskId].userId = files[f].userId

\* C3 witness: a task deletion crashed after its lookup while a file is
\* attached to that task
C3_Witness ==
    \E s \in Slots, f \in DOMAIN files :
        /\ slots[s].op = "deleteTask" /\ slots[s].pc = "crashed"
        /\ files[f].taskId = slots[s].id

----------------------------------------------------------------------------
(* Task deletion and its files *)

\* C4: a successful task delete removes the task; every file record stays,
\* with taskId null exactly where it named the task and nothing else changed;
\* no stored object changes; the owner's lookup of each such file still finds it.
C4_DeleteTaskKeepsFiles ==
    [][\A s \in Slots :
        (Finishes(s, "deleteTask", "delete") /\ slots'[s].resp.status = 200) =>
            LET id == slots[s].id IN
            /\ id \in DOMAIN tasks /\ id \notin DOMAIN tasks'
            /\ DOMAIN files' = DOMAIN files
            /\ objects' = objects
            /\ \A f \in DOMAIN files :
                /\ files'[f] = IF files[f].taskId = id
                               THEN [files[f] EXCEPT !.taskId = NoTask]
                               ELSE files[f]
                /\ FileFindFirst(f, files[f].userId)' # << >>]_vars

\* C4 witness: a task delete succeeded and two files are left without a task
\* (under SpecTasks every file is uploaded with a task and never detached)
C4_Witness ==
    \E s \in Slots :
        /\ slots[s].op = "deleteTask" /\ slots[s].pc = "done" /\ slots[s].resp.status = 200
        /\ Cardinality({ f \in DOMAIN files : files[f].taskId = NoTask }) = 2

----------------------------------------------------------------------------
(* Upload *)

\* C5: when an upload has written its object and then answers a failure, the
\* handler has called deleteFile and the object is gone (no orphaned object).
C5_FailedUploadLeavesNoObject ==
    \A s \in Slots :
        (slots[s].op = "upload" /\ slots[s].pc = "done" /\ slots[s].resp.status = 500
            /\ slots[s].up # << >>) =>
                /\ slots[s].dels >= 1
                /\ slots[s].up[1].gcsPath \notin objects

\* C6: a failed put ends the request with a failure and no new record; every
\* file record an upload creates carries the locator its own successful put
\* returned, and that object is in storage.
C6_StorageBeforeMetadata ==
    [][/\ \A s \in Slots :
            (Finishes(s, "upload", "put")) =>
                /\ slots'[s].resp.status = 500
                /\ slots'[s].up = << >>
                /\ files' = files
       /\ \A f \in (DOMAIN files') \ (DOMAIN files) :
            \E s \in Slots :
                /\ slots[s].op = "upload" /\ slots[s].pc = "create"
                /\ slots[s].puts = 1
                /\ slots[s].up # << >>
                /\ files'[f].gcsPath = slots[s].up[1].gcsPath
                /\ files'[f].gcsPath \in objects]_vars

\* C6 witness: an upload whose put failed was answered 500 and no file
\* record exists
C6_Witness ==
    \E s \in Slots :
        /\ slots[s].op = "upload" /\ slots[s].pc = "done"
        /\ slots[s].puts = 1 /\ slots[s].up = << >>
        /\ slots[s].resp.status = 500
        /\ files = << >>

\* C7: once a file delete has answered success, the file's record and its
\* object are gone; no step of a file delete changes another file's record
\* or another locator's object.
C7_DeleteFileRemovesBoth ==
    /\ [](\A s \in Slots :
            (slots[s].op = "deleteFile" /\ slots[s].pc = "done" /\ slots[s].resp.status = 200) =>
                /\ slots[s].id \notin DOMAIN files
                /\ slots[s].gcsPath \notin objects)
    /\ [][\A s \in Slots :
            (slots[s].op = "deleteFile" /\ slots[s].pc \in {"unlink", "remove"}
                /\ slots'[s] # slots[s]) =>
                    /\ \A f \in (DOMAIN files) \ {slots[s].id} :
                            f \in DOMAIN files' /\ files'[f] = files[f]
                    /\ objects' \ {slots[s].gcsPath} = objects \ {slots[s].gcsPath}]_vars

\* C7 witness: a file delete answered success while another file exists
\* with its object
C7_Witness ==
    \E s \in Slots, f \in DOMAIN files :
        /\ slots[s].op = "deleteFile" /\ slots[s].pc = "done" /\ slots[s].resp.status = 200
        /\ files[f].gcsPath \in objects

\* C8: an upload over 10 MiB or of a type outside the allow-list is answered
\* an error at once: uploadFile is never called, and the File table and the
\* stored objects are as they were.
C8_RejectedUploadTouchesNothing ==
    [][\A s \in Slots :
        (Starts(s, "upload")
            /\ (slots'[s].size > MaxFileSize \/ slots'[s].mime \notin allowedMimeTypes)) =>
                /\ slots'[s].pc = "done"
                /\ slots'[s].resp.status >= 400
                /\ slots'[s].puts = 0
                /\ files' = files
                /\ objects' = objects]_vars

\* C8 witness: an oversized upload of an allowed type was rejected with no put
C8_Witness ==
    \E s \in Slots :
        /\ slots[s].op = "upload" /\ slots[s].pc = "done"
        /\ slots[s].size > MaxFileSize /\ slots[s].mime \in allowedMimeTypes
        /\ slots[s].puts = 0 /\ slots[s].resp.status = 400

----------------------------------------------------------------------------
(* Attach *)

\* C9: every NotFound answer of attach is the same response, whichever of the
\* two lookups (file, task) failed.
C9_AttachNotFoundIsUniform ==
    \A s \in Slots :
        (slots[s].op = "attach" /\ slots[s].pc = "done" /\ slots[s].resp.status = 404) =>
            slots[s].resp = FileNotFound

\* C10: attach of a file to a task, both of the requester, succeeds also when
\* the file is attached to another task, and leaves the file in the files
\* projection of the new task and of no other task.
C10_ReattachOverwrites ==
    [][\A s \in Slots :
        (Finishes(s, "attach", "attach") /\ slots[s].id \in DOMAIN files
            /\ slots[s].taskId \in DOMAIN tasks) =>
                LET id == slots[s].id
                    taskId == slots[s].taskId
                IN  /\ slots'[s].resp.status = 200
                    /\ files'[id].taskId = taskId
                    /\ FileSelect(files'[id]) \in FilesOfTask(files', taskId)
                    /\ \A t \in (DOMAIN tasks) \ {taskId} :
                            FileSelect(files'[id]) \notin FilesOfTask(files', t)]_vars

\* C10 witness: an attach succeeded on a file that was attached to another task
C10_Witness ==
    \E s \in Slots :
        /\ slots[s].op = "attach" /\ slots[s].pc = "done" /\ slots[s].resp.status = 200
        /\ slots[s].prev # NoTask /\ slots[s].prev # slots[s].taskId
        /\ files[slots[s].id].taskId = slots[s].taskId

----------------------------------------------------------------------------
(* Detach *)

\* C11: detach of a file of the requester succeeds whether or not the file is
\* attached; it sets taskId to null and changes no other attribute, no other
\* record and no stored object, so a second detach leaves the state of the first.
C11_DetachIsIdempotent ==
    [][\A s \in Slots :
        (Finishes(s, "detach", "detach") /\ slots[s].id \in DOMAIN files) =>
            LET id == slots[s].id IN
            /\ slots'[s].resp.status = 200
            /\ files' = [files EXCEPT ![id] = [@ EXCEPT !.taskId = NoTask]]
            /\ (files[id].taskId = NoTask => files' = files)
            /\ objects' = objects
            /\ tasks' = tasks]_vars

\* C11 witness: a detach succeeded on a file that had no task
C11_Witness ==
    \E s \in Slots :
        /\ slots[s].op = "detach" /\ slots[s].pc = "done" /\ slots[s].resp.status = 200
        /\ slots[s].prev = NoTask
        /\ slots[s].id \in DOMAIN files /\ files[slots[s].id].taskId = NoTask

----------------------------------------------------------------------------
(* Listing *)

\* a finished list request in slot s
Listed(s) == slots[s].op = "list" /\ slots[s].pc = "done" /\ slots[s].resp.status = 200

\* the ids of the tasks a list response carries
ItemIds(s) ==
    LET items == slots[s].resp.data[1].tasks IN { items[i].id : i \in DOMAIN items }

\* the term of query q: the search parameter trimmed, << >> when there is none
Term(q) == IF Has(q, "search") THEN trim(q.search) ELSE << >>

\* task t is selected by query q of user u
Selected(t, u, q) ==
    /\ t.userId = u
    /\ (Has(q, "status") => t.status = q.status)
    /\ (Has(q, "priority") => t.priority = q.priority)
    /\ (Term(q) # << >> =>
            \/ Contains(t.title, Term(q))
            \/ (t.description # << >> /\ Contains(t.description[1], Term(q))))

SelectedIds(u, q) == { id \in DOMAIN tasks : Selected(tasks[id], u, q) }

\* C12: a list request that fits on one page answers exactly the requester's
\* tasks that pass the status filter and the priority filter, if given, and
\* whose title or description contains the trimmed search term; an absent,
\* empty or blank term selects on the filters alone.
C12_SearchSelectsExactly ==
    \A s \in Slots :
        (Listed(s) /\ slots[s].body \in FilterQueries) =>
            ItemIds(s) = SelectedIds(slots[s].uid, slots[s].body)

\* C12 witness: a search with a padded term answered one task of the
\* requester and left out another
C12_Witness ==
    \E s \in Slots :
        /\ Listed(s) /\ Has(slots[s].body, "search") /\ Term(slots[s].body) # << >>
        /\ slots[s].body.search # Term(slots[s].body)
        /\ ItemIds(s) # {}
        /\ \E id \in DOMAIN tasks : tasks[id].userId = slots[s].uid /\ id \notin ItemIds(s)

\* C13: in every list response total is the number of tasks the query
\* selects (owner, filters and search), and pages is the least number of
\* pages of size limit that holds total tasks.
C13_TotalCountsTheSelection ==
    \A s \in Slots :
        Listed(s) =>
            LET p == slots[s].resp.data[1].pagination IN
            /\ p.total = Cardinality(SelectedIds(slots[s].uid, slots[s].body))
            /\ p.pages * p.limit >= p.total
            /\ (p.pages - 1) * p.limit < p.total

\* C13 witness: a filtered list answered a total of one while the requester
\* has two tasks
C13_Witness ==
    \E s \in Slots :
        /\ Listed(s)
        /\ slots[s].resp.data[1].pagination.total = 1
        /\ Cardinality({ id \in DOMAIN tasks : tasks[id].userId = slots[s].uid }) = 2

----------------------------------------------------------------------------
(* Task create and update *)

\* C14: a task created with no status and no priority is stored PENDING and
\* MEDIUM, with the requester as owner, and answered 201; created with no
\* dueDate it has a null dueDate; the fields given are stored as given.
C14_CreateDefaults ==
    [][\A s \in Slots :
        Starts(s, "createTask") =>
            LET body == slots'[s].body
                id == slots'[s].id
            IN  /\ id \notin DOMAIN tasks /\ id \in DOMAIN tasks'
                /\ slots'[s].resp.status = 201
                /\ tasks'[id].userId = slots'[s].uid
                /\ tasks'[id].title = body.title
                /\ tasks'[id].status = (IF Has(body, "status") THEN body.status ELSE "PENDING")
                /\ tasks'[id].priority = (IF Has(body, "priority") THEN body.priority ELSE "MEDIUM")
                /\ (~Has(body, "dueDate") => tasks'[id].dueDate = NullDate)
                /\ slots'[s].resp.data[1] = TaskView(tasks'[id], files)]_vars

\* C14 witness: a task created from a title alone is stored PENDING, MEDIUM
\* and without a due date
C14_Witness ==
    \E s \in Slots :
        /\ slots[s].op = "createTask" /\ slots[s].pc = "done"
        /\ DOMAIN slots[s].body = {"title"}
        /\ tasks[slots[s].id].status = "PENDING"
        /\ tasks[slots[s].id].priority = "MEDIUM"
        /\ tasks[slots[s].id].dueDate = NullDate

\* the value a request body gives a column
Given(body, field) == IF field = "description" THEN <<body[field]>> ELSE body[field]

\* C15: a task update writes the fields of the request and nothing else:
\* every omitted field keeps its value, a null dueDate clears dueDate, and the
\* task's id, owner and creation time, every other task and every file
\* record stay as they were.
C15_UpdateWritesGivenFields ==
    [][\A s \in Slots :
        (Finishes(s, "updateTask", "update") /\ slots[s].id \in DOMAIN tasks) =>
            LET body == slots[s].body
                id == slots[s].id
            IN  /\ slots'[s].resp.status = 200
                /\ DOMAIN tasks' = DOMAIN tasks
                /\ \A f \in {"title", "description", "status", "priority", "dueDate"} :
                        tasks'[id][f] = IF Has(body, f) THEN Given(body, f) ELSE tasks[id][f]
                /\ \A f \in {"id", "userId", "createdAt"} : tasks'[id][f] = tasks[id][f]
                /\ \A t \in (DOMAIN tasks) \ {id} : tasks'[t] = tasks[t]
                /\ files' = files
                /\ FilesOfTask(files', id) = FilesOfTask(files, id)]_vars

\* C15 witness: an update that gave only a title kept the due date of a task
\* that has a file, and an earlier update had completed the task
C15_Witness ==
    \E s \in Slots :
        /\ slots[s].op = "updateTask" /\ slots[s].pc = "done" /\ slots[s].resp.status = 200
        /\ DOMAIN slots[s].body = {"title"}
        /\ tasks[slots[s].id].title = slots[s].body.title
        /\ tasks[slots[s].id].dueDate # NullDate
        /\ FilesOfTask(files, slots[s].id) # {}

----------------------------------------------------------------------------
(* Isolation of users *)

\* the step is a step of the request in slot s
Acts(s) == slots'[s] # slots[s] /\ slots'[s] # IdleSlot

\* the user whose directory or prefix holds the object
OwnerOf(gcsPath) == gcsPath[2]

OwnTasks(u) == { id \in DOMAIN tasks : tasks[id].userId = u }

----------------------------------------------------------------------------
(* Upload rejections *)

\* C17: an upload over the size ceiling and an upload of a type outside the
\* allow-list are both answered 400 "File upload error".
C17_RejectedUploadIsInvalidInput ==
    \A s \in Slots :
        (slots[s].op = "upload" /\ slots[s].pc = "done"
            /\ (slots[s].size > MaxFileSize \/ (slots[s].mime # "" /\ slots[s].mime \notin allowedMimeTypes))) =>
                /\ slots[s].resp.status = 400
                /\ slots[s].resp.error = "File upload error"

----------------------------------------------------------------------------
(* Pagination *)

\* the ids of a list response, in the order answered
ItemSeq(s) ==
    LET items == slots[s].resp.data[1].tasks IN [i \in DOMAIN items |-> items[i].id]

\* a list response is positions (p-1)*l+1 .. min(p*l, total) of the selected
\* tasks in an order that respects the sort key and direction; it has at most
\* l tasks and none beyond the last page
PageIsSlice ==
    \A s \in Slots :
        Listed(s) =>
            LET q == slots[s].body
                v == ValidateQuery(q)
                ids == SelectedIds(slots[s].uid, q)
                total == Cardinality(ids)
            IN  /\ \E o \in OrderBy(tasks, ids, v.sortBy, v.sortOrder) :
                    ItemSeq(s) = SubSeq(o, (v.page - 1) * v.limit + 1, Min(v.page * v.limit, total))
                /\ Len(ItemSeq(s)) <= v.limit
                /\ (v.page > slots[s].resp.data[1].pagination.pages => ItemSeq(s) = << >>)
                /\ (~Has(q, "sortBy") =>
                        \A i, j \in DOMAIN ItemSeq(s) :
                            i < j => tasks[ItemSeq(s)[i]].createdAt > tasks[ItemSeq(s)[j]].createdAt)

\* two queries that differ in the page alone
OtherPage(q1, q2) ==
    /\ DOMAIN q1 = DOMAIN q2 /\ Has(q1, "page")
    /\ q1.page # q2.page
    /\ \A f \in (DOMAIN q1) \ {"page"} : q1[f] = q2[f]

\* C18: every list response is the page-th slice of the selected tasks in the
\* requested order (createdAt descending by default), and two pages of one
\* query, asked one after the other with no write between, have no task in
\* common.
C18_PagesPartitionTheSelection ==
    /\ []PageIsSlice
    /\ [][\A s \in Slots :
            (Listed(s) /\ Listed(s)' /\ slots'[s].uid = slots[s].uid
                /\ OtherPage(slots[s].body, slots'[s].body) /\ tasks' = tasks) =>
                    ItemIds(s) \cap ItemIds(s)' = {}]_vars

----------------------------------------------------------------------------
(* Statistics *)

\* a finished stats request in slot s
Counted(s) == slots[s].op = "stats" /\ slots[s].pc = "done" /\ slots[s].resp.status = 200

\* C19: stats counts the requester's tasks only: total is their number, and
\* overdue is the number of them that are PENDING or IN_PROGRESS and whose
\* due date is strictly before the request time, so a task with no due date
\* and a COMPLETED task are never overdue.
C19_OverdueCount ==
    \A s \in Slots :
        Counted(s) =>
            LET u == slots[s].uid
                now == slots[s].body.now
                r == slots[s].resp.data[1]
                own == { id \in DOMAIN tasks : tasks[id].userId = u }
                late == { id \in own :
                            /\ tasks[id].status # "COMPLETED"
                            /\ tasks[id].dueDate # NullDate
                            /\ tasks[id].dueDate[1] < now }
            IN  /\ r.total = Cardinality(own)
                /\ r.pending = Cardinality({ id \in own : tasks[id].status = "PENDING" })
                /\ r.inProgress = Cardinality({ id \in own : tasks[id].status = "IN_PROGRESS" })
                /\ r.completed = Cardinality({ id \in own : tasks[id].status = "COMPLETED" })
                /\ r.overdue = Cardinality(late)

\* C19 witness: stats answered one overdue task to a user who has an
\* IN_PROGRESS task due before the request time and a COMPLETED task due
\* before it too
C19_Witness ==
    \E s \in Slots :
        /\ Counted(s)
        /\ slots[s].resp.data[1].overdue = 1
        /\ slots[s].resp.data[1].total = 2
        /\ \E id \in DOMAIN tasks :
                /\ tasks[id].userId = slots[s].uid /\ tasks[id].status = "COMPLETED"
                /\ tasks[id].dueDate # NullDate /\ tasks[id].dueDate[1] < slots[s].body.now

----------------------------------------------------------------------------
(* What a task response shows of its files *)

\* the tasks carried by the response of a task route
TasksAnswered(s) ==
    IF slots[s].op = "list"
    THEN { slots[s].resp.data[1].tasks[i] : i \in DOMAIN slots[s].resp.data[1].tasks }
    ELSE { slots[s].resp.data[1] }

\* C20: every task answered by list, get, create and update shows of each
\* attached file the fields id, filename, originalName, mimeType, size and
\* createdAt and no other; the storage locator is in no task response.
C20_TaskFilesAreProjected ==
    \A s \in Slots :
        (slots[s].op \in {"list", "getTask", "createTask", "updateTask"}
            /\ slots[s].pc = "done" /\ slots[s].resp.status \in {200, 201}) =>
                \A t \in TasksAnswered(s) :
                    /\ "gcsPath" \notin DOMAIN t
                    /\ \A f \in t.files :
                        DOMAIN f = {"id", "filename", "originalName", "mimeType", "size", "createdAt"}

\* C20 witness: a list answered a task that has a file
C20_Witness ==
    \E s \in Slots :
        /\ slots[s].op = "list" /\ slots[s].pc = "done"
        /\ slots[s].resp.status = 200
        /\ \E t \in TasksAnswered(s) : t.files # {}

----------------------------------------------------------------------------
(* Generated names *)

\* C21: two file records never have the same generated name or the same
\* locator, also when uploads of the same original name by one user or by
\* two are in flight together; and the storage step of a file delete leaves
\* the object of every other file record in place.
C21_GeneratedNamesAreDistinct ==
    /\ [](\A f1, f2 \in DOMAIN files :
            f1 # f2 => /\ files[f1].filename # files[f2].filename
                       /\ files[f1].gcsPath # files[f2].gcsPath)
    /\ [][\A s \in Slots :
            (slots[s].op = "deleteFile" /\ slots[s].pc = "unlink" /\ slots'[s] # slots[s]) =>
                \A f \in (DOMAIN files) \ {slots[s].id} :
                    files[f].gcsPath \in objects => files[f].gcsPath \in objects']_vars

\* C21 witness: two files of one user uploaded with the same original name
\* exist, one of them is being deleted and its object is already gone
C21_Witness ==
    \E s \in Slots, f \in DOMAIN files :
        /\ slots[s].op = "deleteFile" /\ slots[s].pc = "remove"
        /\ slots[s].id \in DOMAIN files /\ f # slots[s].id
        /\ slots[s].gcsPath \notin objects
        /\ files[f].userId = files[slots[s].id].userId
        /\ files[f].originalName = files[slots[s].id].originalName
        /\ files[f].gcsPath \in objects

----------------------------------------------------------------------------
(* The local serve endpoint *)

\* a request to the serve endpoint in slot s was answered the content
Served(s) == slots[s].op = "serve" /\ slots[s].pc = "done" /\ slots[s].resp.status = 200

\* C22: in filesystem mode the serve endpoint, asked for the stored name of a
\* file whose object is on disk, delivers that file's content exactly when
\* the requester owns the file, which is exactly when the download-link
\* endpoint issues a link for the file's id; in object-storage mode the
\* serve endpoint delivers nothing.
C22_ServeDecidesAsLink ==
    [][\A s \in Slots :
        /\ Starts(s, "serve") =>
              LET u == slots'[s].uid
                  name == slots'[s].body.filename
              IN  IF isLocalDev
                  THEN /\ \A f \in DOMAIN files :
                            (files[f].filename = name /\ files[f].gcsPath \in objects) =>
                                /\ Served(s)' <=> files[f].userId = u
                                /\ Served(s)' <=> FileFindFirst(f, u) # << >>
                                /\ Served(s)' => slots'[s].resp.data[1].sendFile = files[f].gcsPath
                       /\ Served(s)' => \E f \in DOMAIN files : files[f].filename = name
                  ELSE ~Served(s)'
        /\ (Starts(s, "download") /\ isLocalDev /\ slots'[s].id \in DOMAIN files) =>
              (slots'[s].resp.status = 200 <=> files[slots'[s].id].userId = slots'[s].uid)]_vars

\* C22 witness: in filesystem mode a user was served a file while the other
\* user has a stored file too
C22_Witness ==
    \E s \in Slots, f \in DOMAIN files :
        /\ isLocalDev /\ Served(s)
        /\ files[f].userId # slots[s].uid /\ files[f].gcsPath \in objects

----------------------------------------------------------------------------
(* The backend mode *)

\* the first component of a locator written in the current mode
ModeRoot == IF isLocalDev THEN "uploads" ELSE "users"

\* C23: the backend mode never changes, and every decision that depends on
\* it is taken in that one mode: every object put and every locator recorded
\* has the form of the mode, a download link is a local URL exactly in
\* filesystem mode, and the serve endpoint serves only in filesystem mode and
\* refuses as "production" only in object-storage mode.
C23_OneModePerProcess ==
    /\ [][isLocalDev' = isLocalDev /\ bucketEnv' = bucketEnv]_vars
    /\ [](/\ \A o \in objects : o[1] = ModeRoot
          /\ \A f \in DOMAIN files : files[f].gcsPath[1] = ModeRoot
          /\ \A s \in Slots :
                /\ Served(s) => isLocalDev
                /\ (slots[s].op = "serve" /\ slots[s].pc = "done"
                        /\ slots[s].resp.error = "Direct file access not available in production")
                      => ~isLocalDev
                /\ (slots[s].op = "download" /\ slots[s].pc = "done" /\ slots[s].resp.status = 200)
                      => (slots[s].resp.data[1].downloadUrl[1] = "signed" <=> ~isLocalDev))

\* C23 witness: in object-storage mode an object is in the bucket and the
\* serve endpoint refused its owner
C23_Witness ==
    \E s \in Slots, f \in DOMAIN files :
        /\ ~isLocalDev
        /\ files[f].gcsPath \in objects
        /\ slots[s].op = "serve" /\ slots[s].pc = "done"
        /\ slots[s].uid = files[f].userId /\ slots[s].body.filename = files[f].filename
        /\ slots[s].resp.error = "Direct file access not available in production"

----------------------------------------------------------------------------
(* Storage failures *)

GenericFailures ==
    { Error(500, "Failed to upload file"), Error(500, "Failed to delete file"),
      Error(500, "Failed to generate download URL") }

\* C24: a request calls uploadFile, deleteFile and getSignedUrl at most once
\* each; when the put of an upload, the storage delete of a file delete or
\* the signing of a download link fails, the request ends at that step with
\* a fixed 500 message and no data, and the File table is as it was.
C24_StorageFailureIsPropagated ==
    /\ [](\A s \in Slots : slots[s].puts <= 1 /\ slots[s].dels <= 1 /\ slots[s].signs <= 1)
    /\ [][\A s \in Slots :
            /\ (slots[s].op = "upload" /\ slots[s].pc = "put" /\ slots'[s] # slots[s]
                    /\ objects' = objects) =>
                  /\ slots'[s].pc = "done" /\ slots'[s].puts = 1
                  /\ slots'[s].resp = Error(500, "Failed to upload file")
                  /\ files' = files
            /\ (slots[s].op = "deleteFile" /\ slots[s].pc = "unlink" /\ slots'[s] # slots[s]
                    /\ slots[s].gcsPath \in objects') =>
                  /\ slots'[s].pc = "done" /\ slots'[s].dels = 1
                  /\ slots'[s].resp = Error(500, "Failed to delete file")
                  /\ files' = files
            /\ (Starts(s, "download") /\ slots'[s].signs = 1 /\ slots'[s].resp.status # 200) =>
                  /\ slots'[s].pc = "done"
                  /\ slots'[s].resp = Error(500, "Failed to generate download URL")
                  /\ files' = files]_vars

\* C24 witness: a file delete whose storage delete failed was answered 500
\* after one call, and the record and the object are both still there
C24_Witness ==
    \E s \in Slots :
        /\ slots[s].op = "deleteFile" /\ slots[s].pc = "done" /\ slots[s].dels = 1
        /\ slots[s].resp \in GenericFailures
        /\ slots[s].id \in DOMAIN files
        /\ slots[s].gcsPath \in objects

----------------------------------------------------------------------------
(* What an error response carries *)

\* C25: no error response carries a stack trace, and a failure that is
\* answered as an internal error (500) carries a fixed message and nothing
\* else.  Violated: outside production the default branch of errorHandler
\* answers the rejection of a disallowed MIME type with the error's own
\* message and its stack.
C25_ErrorsCarryNoInternals ==
    \A s \in Slots :
        slots[s].resp.status >= 400 =>
            /\ \A i \in DOMAIN slots[s].resp.data : "stack" \notin DOMAIN slots[s].resp.data[i]
            /\ slots[s].resp.status = 500 =>
                    /\ slots[s].resp.data = << >>
                    /\ slots[s].resp.error \in
                          { "Internal server error", "Something went wrong",
                            "Failed to upload file", "Failed to delete file",
                            "Failed to generate download URL" }

----------------------------------------------------------------------------
(* Two updates of one task in flight together *)

\* both slots hold answered updates of the same task
BothUpdated ==
    /\ \A s \in Slots : slots[s].op = "updateTask" /\ slots[s].pc = "done"
    /\ slots[1].id = slots[2].id /\ slots[1].uid = slots[2].uid

\* the task as the update in slot s answered it
Answered(s) == slots[s].resp.data[1]

\* C26: two updates of one task by its owner that overlap both answer 200,
\* whichever writes first; afterwards the row is the one the update applied
\* last answered, and each of title, description, status, priority and
\* dueDate has the value of the last of the two updates that set it, or,
\* when neither set it, the value it had before both.
C26_LastWriteWins ==
    /\ [][\A s \in Slots : Finishes(s, "updateTask", "update") => slots'[s].resp.status = 200]_vars
    /\ [](BothUpdated =>
            /\ \A s \in Slots : slots[s].resp.status = 200
            /\ \E last \in Slots :
                 LET first == CHOOSE s \in Slots : s # last
                     id == slots[last].id
                 IN  /\ Answered(last) = TaskView(tasks[id], files)
                     /\ \A f \in {"title", "description", "status", "priority", "dueDate"} :
                           tasks[id][f] =
                             IF Has(slots[last].body, f) THEN Given(slots[last].body, f)
                             ELSE IF Has(slots[first].body, f) THEN Given(slots[first].body, f)
                             ELSE Answered(first)[f])

\* C26 witness: two updates of one task that gave different titles have both
\* been answered 200, and the task has the title of the one in slot 1, whose
\* lookup came first
C26_Witness ==
    /\ BothUpdated
    /\ \A s \in Slots : slots[s].resp.status = 200
    /\ slots[1].body.title # slots[2].body.title
    /\ tasks[slots[1].id].title = slots[1].body.title
    /\ tasks[slots[1].id].status = "IN_PROGRESS"
    /\ tasks[slots[1].id].dueDate = NullDate
    /\ tasks[slots[1].id].priority = "HIGH"

----------------------------------------------------------------------------
(* File deletion under failure *)

\* a deletion of file id is between its lookup and its response
DeletionInFlight(id) ==
    \E s \in Slots :
        slots[s].op = "deleteFile" /\ slots[s].pc \in {"unlink", "remove"} /\ slots[s].id = id

\* C27: once no deletion of a file is in flight, the file's record and its
\* stored object are both there or both gone: no record names an object that
\* is missing.  Violated: the storage delete succeeds, prisma.file.delete then
\* throws, and the request answers 500 with the record left in place.
C27_DeleteIsAllOrNothing ==
    \A id \in DOMAIN files :
        ~DeletionInFlight(id) => files[id].gcsPath \in objects

----------------------------------------------------------------------------
(* An upload to a task that is deleted meanwhile *)

\* C28: an answered upload that named a task, passed the ownership check and
\* wrote its object, and whose task is gone, has left no file record that
\* names the task, and its object is either gone or named by a file record.
\* Violated: the insert is refused by the foreign key, the request answers
\* 500 and the object it wrote stays in storage with no record.
C28_UploadToDeletedTask ==
    \A s \in Slots :
        (slots[s].op = "upload" /\ slots[s].pc = "done" /\ slots[s].up # << >>
            /\ slots[s].taskId # NoTask /\ slots[s].taskId \notin DOMAIN tasks) =>
                /\ \A f \in DOMAIN files : files[f].taskId # slots[s].taskId
                /\ slots[s].up[1].gcsPath \in objects =>
                        \E f \in DOMAIN files : files[f].gcsPath = slots[s].up[1].gcsPath

----------------------------------------------------------------------------
(* The storage locator in responses *)

\* the file objects of the successful response in slot s
FilesAnswered(s) ==
    IF slots[s].op = "listFiles"
    THEN { slots[s].resp.data[1].files[i] : i \in DOMAIN slots[s].resp.data[1].files }
    ELSE { slots[s].resp.data[1] }

\* C29: no file object in a successful response of upload, list, get
\* metadata, attach or detach has the gcsPath field.  Violated: get metadata,
\* attach and detach answer the whole File record.
C29_NoLocatorInResponses ==
    \A s \in Slots :
        (slots[s].op \in {"upload", "listFiles", "getFile", "attach", "detach"}
            /\ slots[s].pc = "done" /\ slots[s].resp.status \in {200, 201}) =>
                \A f \in FilesAnswered(s) : "gcsPath" \notin DOMAIN f

----------------------------------------------------------------------------
(* A list request beside writes *)

\* C30: a list response has at most limit items and at most total items,
\* also when tasks are created or deleted while the request runs.  (That
\* total counts a set holding every returned item implies the second bound.)
\* Violated: count runs on the empty table, a task is created, findMany
\* returns it: one item under total = 0.
C30_ListIsOneSnapshot ==
    \A s \in Slots :
        (slots[s].op = "list" /\ slots[s].pc = "done" /\ slots[s].resp.status = 200) =>
            LET data == slots[s].resp.data[1] IN
            /\ Len(data.tasks) <= data.pagination.limit
            /\ Len(data.tasks) <= data.pagination.total

====
